---- MODULE Spec2Model ----
(***************************************************************************)
(* Criterion release tracker: the scrape pipeline of criterion_scraper_py  *)
(* (fetch, extract, save_to_database) and the orchestration of app.py      *)
(* (run_scraper_background behind SCRAPER_LOCK / SCRAPE_IN_PROGRESS, the   *)
(* manual triggers and the 24 hour scheduler thread).                      *)
(***************************************************************************)
EXTENDS Integers, Sequences, FiniteSets, TLC

\* SQL NULL / Python None.
NULL == "NULL"

(***************************************************************************)
(* The films table and the dict save_to_database reads with film.get().    *)
(***************************************************************************)

\* The columns the UPDATE of save_to_database merges.
MergedFields ==
    {"spine_number", "release_date", "release_status", "format",
     "price", "description", "url", "cover_art_url"}

\* What extract_film_data can put in a film dict besides its identity: the
\* status of the page, a date, a format, the two URLs; price and description
\* are read by save_to_database but set by no extraction rule.
ProfileBare ==
    [release_date |-> NULL, release_status |-> NULL, format |-> NULL,
     price |-> NULL, description |-> NULL, url |-> NULL, cover_art_url |-> NULL]

ProfileReleased ==
    [release_date |-> NULL, release_status |-> "released", format |-> "DVD",
     price |-> NULL, description |-> NULL, url |-> NULL, cover_art_url |-> NULL]

ProfileUpcoming ==
    [release_date |-> "2025-04-01", release_status |-> "upcoming",
     format |-> "Blu-ray", price |-> "$39.95", description |-> "restored",
     url |-> "https://www.criterion.com/films/1",
     cover_art_url |-> "https://www.criterion.com/img/1.jpg"]

\* (title, director) pairs: two that differ in the director only, two that
\* differ in the title only.
Identities ==
    {<<"Seven Samurai", "Akira Kurosawa">>, <<"Seven Samurai", NULL>>,
     <<"Ikiru", NULL>>}

Spines == {NULL, "2", "221"}

Film(title, director, spine, p) ==
    [title |-> title, director |-> director, spine_number |-> spine,
     release_date |-> p.release_date, release_status |-> p.release_status,
     format |-> p.format, price |-> p.price, description |-> p.description,
     url |-> p.url, cover_art_url |-> p.cover_art_url]

\* SQL COALESCE(a, b).
COALESCE(a, b) == IF a # NULL THEN a ELSE b

\* Mutant: WHERE title = ? AND director = ?, which no NULL director satisfies.
MatchesWhereNoCoalesce(row, film) ==
    /\ row.title = film.title
    /\ row.director # NULL
    /\ film.director # NULL
    /\ row.director = film.director

\* Mutant: WHERE title = ?, a film without director matching any director.
MatchesWhereTitleOnly(row, film) == row.title = film.title

\* WHERE title = ? AND COALESCE(director, '') = COALESCE(?, '')
MatchesWhere(row, film) ==
    /\ row.title = film.title
    /\ COALESCE(row.director, "") = COALESCE(film.director, "")

\* A row id that no row has: what stands for fetchone() returning None (ids
\* are AUTOINCREMENT and start at 1).
NoRow == 0

\* Mutant: the existence check finds no row, every film goes to the INSERT.
SelectNothing(rows, film) == NoRow

\* Mutant: the SELECT also finds a row by the film's spine number.
SelectExistingAlsoBySpine(rows, film) ==
    LET hits == {i \in 1..Len(rows) :
                    \/ MatchesWhere(rows[i], film)
                    \/ /\ film.spine_number # NULL
                       /\ rows[i].spine_number = film.spine_number}
    IN  IF hits = {} THEN NoRow
        ELSE CHOOSE i \in hits : \A j \in hits : i <= j

\* cursor.fetchone() of the SELECT id: the first matching row in rowid order,
\* NoRow when there is none.
SelectExisting(rows, film) ==
    LET hits == {i \in 1..Len(rows) : MatchesWhere(rows[i], film)}
    IN  IF hits = {} THEN NoRow
        ELSE CHOOSE i \in hits : \A j \in hits : i <= j

\* Mutant: spine_number TEXT, without UNIQUE.
UniqueSpineUnenforced(rows, self, spine) == TRUE

\* spine_number TEXT UNIQUE: no row other than `self` holds the non-NULL value.
UniqueSpine(rows, self, spine) ==
    \/ spine = NULL
    \/ \A i \in 1..Len(rows) : i # self => rows[i].spine_number # spine

\* Mutant: `format = ?` in place of `format = COALESCE(?, format)`.
UpdatedRowOverwritesFormat(row, film, now) ==
    [row EXCEPT
        !.spine_number   = COALESCE(film.spine_number, row.spine_number),
        !.release_date   = COALESCE(film.release_date, row.release_date),
        !.release_status = COALESCE(film.release_status, row.release_status),
        !.format         = film.format,
        !.price          = COALESCE(film.price, row.price),
        !.description    = COALESCE(film.description, row.description),
        !.url            = COALESCE(film.url, row.url),
        !.cover_art_url  = COALESCE(film.cover_art_url, row.cover_art_url),
        !.updated_at     = now]

\* Mutant: release_status = COALESCE(release_status, ?), a stored status is
\* never replaced.
UpdatedRowKeepsStatus(row, film, now) ==
    [row EXCEPT
        !.spine_number   = COALESCE(film.spine_number, row.spine_number),
        !.release_date   = COALESCE(film.release_date, row.release_date),
        !.release_status = COALESCE(row.release_status, film.release_status),
        !.format         = COALESCE(film.format, row.format),
        !.price          = COALESCE(film.price, row.price),
        !.description    = COALESCE(film.description, row.description),
        !.url            = COALESCE(film.url, row.url),
        !.cover_art_url  = COALESCE(film.cover_art_url, row.cover_art_url),
        !.updated_at     = now]

\* Mutant: the SET list without `updated_at = CURRENT_TIMESTAMP`.
UpdatedRowStaleTimestamp(row, film, now) ==
    [row EXCEPT
        !.spine_number   = COALESCE(film.spine_number, row.spine_number),
        !.release_date   = COALESCE(film.release_date, row.release_date),
        !.release_status = COALESCE(film.release_status, row.release_status),
        !.format         = COALESCE(film.format, row.format),
        !.price          = COALESCE(film.price, row.price),
        !.description    = COALESCE(film.description, row.description),
        !.url            = COALESCE(film.url, row.url),
        !.cover_art_url  = COALESCE(film.cover_art_url, row.cover_art_url)]

\* The SET list of the UPDATE, applied to the row WHERE id = existing[0].
UpdatedRow(row, film, now) ==
    [row EXCEPT
        !.spine_number   = COALESCE(film.spine_number, row.spine_number),
        !.release_date   = COALESCE(film.release_date, row.release_date),
        !.release_status = COALESCE(film.release_status, row.release_status),
        !.format         = COALESCE(film.format, row.format),
        !.price          = COALESCE(film.price, row.price),
        !.description    = COALESCE(film.description, row.description),
        !.url            = COALESCE(film.url, row.url),
        !.cover_art_url  = COALESCE(film.cover_art_url, row.cover_art_url),
        !.updated_at     = now]

\* The VALUES of the INSERT; id is AUTOINCREMENT, both timestamps default to
\* CURRENT_TIMESTAMP.
InsertedRow(rows, film, now) ==
    [id |-> Len(rows) + 1,
     spine_number |-> film.spine_number, title |-> film.title,
     director |-> film.director, release_date |-> film.release_date,
     release_status |-> film.release_status, format |-> film.format,
     price |-> film.price, description |-> film.description,
     url |-> film.url, cover_art_url |-> film.cover_art_url,
     created_at |-> now, updated_at |-> now]

\* Whether the UPDATE statement raises sqlite3.IntegrityError.
UpdateFails(rows, existing, film) ==
    ~UniqueSpine(rows, existing,
                 COALESCE(film.spine_number, rows[existing].spine_number))

\* Whether the INSERT statement raises sqlite3.IntegrityError (title NOT NULL,
\* spine_number UNIQUE).
InsertFails(rows, film) ==
    \/ film.title = NULL
    \/ ~UniqueSpine(rows, NoRow, film.spine_number)

\* Mutant: an UPDATE that the UNIQUE constraint rejects still stores the
\* other columns, as if spine_number were updated by a statement of its own.
SaveOneMergesRest(acc, film, now) ==
    LET existing == SelectExisting(acc.rows, film)
    IN  IF existing # NoRow
        THEN IF UpdateFails(acc.rows, existing, film)
             THEN [acc EXCEPT
                      !.rows[existing] =
                          [UpdatedRow(acc.rows[existing], film, now)
                              EXCEPT !.spine_number = acc.rows[existing].spine_number],
                      !.errors = @ + 1,
                      !.outcome = "update_failed"]
             ELSE [acc EXCEPT
                      !.rows[existing] = UpdatedRow(acc.rows[existing], film, now),
                      !.updated_count = @ + 1,
                      !.outcome = "updated"]
        ELSE IF InsertFails(acc.rows, film)
             THEN [acc EXCEPT !.errors = @ + 1, !.outcome = "insert_failed"]
             ELSE [acc EXCEPT
                      !.rows = Append(acc.rows, InsertedRow(acc.rows, film, now)),
                      !.saved_count = @ + 1,
                      !.outcome = "inserted"]

\* One iteration of `for film in films`: the statement either applies and is
\* counted, or raises sqlite3.Error, which is logged and changes nothing.
\* acc = [rows, saved_count, updated_count, errors, outcome].
SaveOne(acc, film, now) ==
    LET existing == SelectExisting(acc.rows, film)
    IN  IF existing # NoRow
        THEN IF UpdateFails(acc.rows, existing, film)
             THEN [acc EXCEPT !.errors = @ + 1, !.outcome = "update_failed"]
             ELSE [acc EXCEPT
                      !.rows[existing] = UpdatedRow(acc.rows[existing], film, now),
                      !.updated_count = @ + 1,
                      !.outcome = "updated"]
        ELSE IF InsertFails(acc.rows, film)
             THEN [acc EXCEPT !.errors = @ + 1, !.outcome = "insert_failed"]
             ELSE [acc EXCEPT
                      !.rows = Append(acc.rows, InsertedRow(acc.rows, film, now)),
                      !.saved_count = @ + 1,
                      !.outcome = "inserted"]

StartAcc(rows) ==
    [rows |-> rows, saved_count |-> 0, updated_count |-> 0, errors |-> 0,
     outcome |-> "none"]

RECURSIVE SaveLoop(_, _, _)
\* The whole `for film in films` loop.
SaveLoop(acc, films, now) ==
    IF films = <<>> THEN acc
    ELSE SaveLoop(SaveOne(acc, Head(films), now), Tail(films), now)


(***************************************************************************)
(* Inputs: the film dicts a page can yield and a caller can hand to        *)
(* save_to_database.                                                       *)
(***************************************************************************)

\* Longest list of films handed to one save_to_database call.
MaxBatch == 2

SeedFilms ==
    {Film("Seven Samurai", "Akira Kurosawa", "2", ProfileReleased),
     Film("Seven Samurai", "Akira Kurosawa", NULL, ProfileUpcoming),
     Film("Ikiru", NULL, "221", ProfileUpcoming),
     Film("Seven Samurai", NULL, NULL, ProfileBare),
     Film("Seven Samurai", "Akira Kurosawa", NULL, ProfileBare)}

FilmInputs ==
    {Film(k[1], k[2], s, p) :
        k \in Identities, s \in Spines, p \in {ProfileBare, ProfileUpcoming}}
    \cup SeedFilms

RECURSIVE SeqsUpTo(_, _)
\* Every sequence over S of length at most n.
SeqsUpTo(S, n) ==
    IF n = 0 THEN {<<>>}
    ELSE LET shorter == SeqsUpTo(S, n - 1)
         IN  shorter \cup {Append(q, x) : q \in shorter, x \in S}

Batches == SeqsUpTo(FilmInputs, MaxBatch)

(***************************************************************************)
(* State.                                                                  *)
(***************************************************************************)

Manual == {"m1", "m2"}

Scheduler == "sched"

Threads == Manual \cup {Scheduler}

\* No thread: SCRAPER_LOCK is free.
NoThread == "nobody"

\* Trigger events that are followed: POST requests and wake-ups of the
\* scheduler thread together.
MaxTriggers == 2

\* Optional[datetime] = None.
NoTime == 0

VARIABLES
    SCRAPER_LOCK,        \* the thread inside `with SCRAPER_LOCK`, or NoThread
    SCRAPE_IN_PROGRESS,  \* the module-level flag
    scraping_status,     \* the ScrapingStatus dataclass instance
    pc,                  \* each thread's position in run_scraper_background
    ret,                 \* what each thread's last run_scraper_background call returned
    resp,                \* what each POST /scrape or /api/scrape request was answered
    triggers,            \* trigger events so far (requests and scheduler wake-ups)
    page_idx,            \* run_scraper: index of the page the loop is at
    all_films,           \* run_scraper: the accumulated list
    exc,                 \* the exception a thread is propagating, or NULL
    clock,               \* datetime.now() / CURRENT_TIMESTAMP
    store,               \* the committed rows of the films table
    db_phase,            \* save_to_database: position
    films,               \* save_to_database: its argument
    idx,                 \* save_to_database: loop index
    txn,                 \* save_to_database: the connection's uncommitted view
    pre,                 \* history: the connection's rows before the last iteration
    failed,              \* history: indices of the films whose statement raised in this call
    pages,               \* history: the result of each page of the current run
    snap,                \* history: the status when the latest run took the gate
    start_rows,          \* history: the table when the current run took the gate
    last_outcome,        \* history: how the most recent run ended
    pass,                \* direct caller: save_to_database calls made
    after_first,         \* history: result of the first direct call
    container,           \* extract_film_data: the block it is given
    page_status,         \* extract_film_data: the status it is given
    ex_pc,               \* extract_film_data: position
    title_elem,          \* extract_film_data: the element the title is read from
    data,                \* extract_film_data: the dict being filled
    film_data,           \* extract_film_data: what it returned
    date_text,           \* parse_release_date: its argument
    date_pc,             \* parse_release_date: position
    pattern_idx,         \* parse_release_date: index of the pattern the loop is at
    parsed_date          \* parse_release_date: what it returned

gateVars == <<SCRAPER_LOCK, SCRAPE_IN_PROGRESS>>

threadVars == <<pc, ret, resp, triggers, page_idx, all_films, exc>>

dbVars == <<db_phase, films, idx, txn, pre, failed>>

histVars == <<pages, snap, start_rows, last_outcome>>

callerVars == <<pass, after_first>>

extractVars == <<container, page_status, ex_pc, title_elem, data, film_data>>

dateVars == <<date_text, date_pc, pattern_idx, parsed_date>>

vars ==
    <<gateVars, scraping_status, threadVars, clock, store, dbVars, histVars,
      callerVars, extractVars, dateVars>>


(***************************************************************************)
(* save_to_database, one step per statement group.  The caller puts its    *)
(* argument in `films` and sets db_phase to "called"; it reads the result  *)
(* when db_phase is "returned" or "raised".                                *)
(***************************************************************************)

\* `if not films: return`, else sqlite3.connect and the counters.
DbEnter ==
    /\ db_phase = "called"
    /\ IF films = <<>>
       THEN /\ db_phase' = "returned"
            /\ idx' = 1
            /\ txn' = StartAcc(<<>>)
            /\ pre' = <<>>
       ELSE /\ db_phase' = "loop"
            /\ idx' = 1
            /\ txn' = StartAcc(store)
            /\ pre' = store
    /\ failed' = {}
    /\ UNCHANGED <<gateVars, scraping_status, threadVars, clock, store, films,
                   histVars, callerVars, extractVars, dateVars>>

\* sqlite3.connect raises (the database file cannot be opened): not an
\* sqlite3.Error caught inside the loop, it leaves save_to_database.
DbConnectRaises ==
    /\ db_phase = "called"
    /\ films # <<>>
    /\ db_phase' = "raised"
    /\ UNCHANGED <<gateVars, scraping_status, threadVars, clock, store, films,
                   idx, txn, pre, failed, histVars, callerVars, extractVars, dateVars>>

\* Mutant: the connection is in autocommit mode (isolation_level=None), each
\* statement is committed as it is applied.
DbIterateAutocommit ==
    /\ db_phase = "loop"
    /\ idx <= Len(films)
    /\ pre' = txn.rows
    /\ txn' = SaveOne(txn, films[idx], clock)
    /\ failed' = IF txn'.errors > txn.errors THEN failed \cup {idx} ELSE failed
    /\ idx' = idx + 1
    /\ store' = txn'.rows
    /\ UNCHANGED <<gateVars, scraping_status, threadVars, clock, db_phase,
                   films, histVars, callerVars, extractVars, dateVars>>

\* Mutant: the except clause sits around the loop, so the first statement
\* that raises ends it.
DbIterateStopsAtError ==
    /\ db_phase = "loop"
    /\ idx <= Len(films)
    /\ pre' = txn.rows
    /\ txn' = SaveOne(txn, films[idx], clock)
    /\ failed' = IF txn'.errors > txn.errors THEN failed \cup {idx} ELSE failed
    /\ idx' = IF txn'.errors > txn.errors THEN Len(films) + 1 ELSE idx + 1
    /\ UNCHANGED <<gateVars, scraping_status, threadVars, clock, store, db_phase,
                   films, histVars, callerVars, extractVars, dateVars>>

\* One iteration of `for film in films`.
DbIterate ==
    /\ db_phase = "loop"
    /\ idx <= Len(films)
    /\ pre' = txn.rows
    /\ txn' = SaveOne(txn, films[idx], clock)
    /\ failed' = IF txn'.errors > txn.errors THEN failed \cup {idx} ELSE failed
    /\ idx' = idx + 1
    /\ UNCHANGED <<gateVars, scraping_status, threadVars, clock, store, db_phase,
                   films, histVars, callerVars, extractVars, dateVars>>

\* conn.commit(); conn.close(): the connection's rows become the table.
DbCommit ==
    /\ db_phase = "loop"
    /\ idx > Len(films)
    /\ store' = txn.rows
    /\ db_phase' = "returned"
    /\ UNCHANGED <<gateVars, scraping_status, threadVars, clock, films, idx, txn,
                   pre, failed, histVars, callerVars, extractVars, dateVars>>

\* What a SELECT through another connection (get_db_connection in the routes)
\* returns: the committed rows, never the open transaction of a save.
ReadByCollaborator == store

(***************************************************************************)
(* A direct caller of save_to_database: the same list of films, saved      *)
(* twice into a table that earlier saves have filled.                      *)
(***************************************************************************)

\* Tables that a save into the empty table leaves behind.
SeedStores ==
    {SaveLoop(StartAcc(<<>>), b, 1).rows :
        b \in {<<>>} \cup {<<x>> : x \in SeedFilms}
                     \cup {<<x, y>> : x \in SeedFilms, y \in SeedFilms}}

CallSave ==
    /\ db_phase = "idle"
    /\ pass < 2
    /\ pass' = pass + 1
    /\ clock' = clock + 1
    /\ db_phase' = "called"
    /\ UNCHANGED <<gateVars, scraping_status, threadVars, store, films, idx, txn,
                   pre, failed, histVars, after_first, extractVars, dateVars>>

CallReturn ==
    /\ db_phase = "returned"
    /\ db_phase' = "idle"
    /\ after_first' =
          IF pass = 1
          THEN [rows |-> store, errors |-> txn.errors]
          ELSE after_first
    /\ UNCHANGED <<gateVars, scraping_status, threadVars, clock, store, films,
                   idx, txn, pre, failed, histVars, pass, extractVars, dateVars>>


(***************************************************************************)
(* The pages of one run (CriterionScraper.urls, run_scraper).              *)
(***************************************************************************)

\* self.urls, in insertion order.
Urls == <<"popular=new-releases", "popular=coming-soon">>

\* status = 'released' if 'new-releases' in url else 'upcoming'
StatusOf(url) == IF url = "popular=new-releases" THEN "released" ELSE "upcoming"

\* What extract_film_data derives from a block besides the status.
RawSamurai ==
    [title |-> "Seven Samurai", director |-> "Akira Kurosawa", spine |-> "2",
     release_date |-> "2025-04-01", format |-> "Blu-ray",
     url |-> "https://www.criterion.com/films/1",
     cover_art_url |-> "https://www.criterion.com/img/1.jpg"]

RawIkiru ==
    [title |-> "Ikiru", director |-> NULL, spine |-> "221",
     release_date |-> NULL, format |-> NULL, url |-> NULL,
     cover_art_url |-> NULL]

\* The same item reached through a second anchor, no director derived.
RawSamuraiBare ==
    [title |-> "Seven Samurai", director |-> NULL, spine |-> "2",
     release_date |-> NULL, format |-> "DVD", url |-> NULL,
     cover_art_url |-> NULL]

\* The blocks of a fetched page that yield a film, in page order.
PageContents ==
    {<<>>, <<RawSamurai>>, <<RawSamurai, RawIkiru>>,
     <<RawSamurai, RawSamuraiBare>>}

\* extract_film_data: data = {'release_status': status} plus the derived fields.
Extracted(raw, status) ==
    Film(raw.title, raw.director, raw.spine,
         [ProfileBare EXCEPT !.release_status = status,
                             !.release_date = raw.release_date,
                             !.format = raw.format,
                             !.url = raw.url,
                             !.cover_art_url = raw.cover_art_url])

\* scrape_releases_page on a fetched page: one film per block, in page order.
ScrapedFilms(content, status) ==
    [i \in 1..Len(content) |-> Extracted(content[i], status)]

(***************************************************************************)
(* extract_film_data: the title of a block.  A str is the sequence of its  *)
(* characters.                                                             *)
(***************************************************************************)

\* The characters str.split() splits at.
Whitespace == {" ", "\t"}

\* A three character title.
TextRan == <<"R", "a", "n">>

\* Two characters.
TextUp == <<"U", "p">>

\* A UI label.
TextView == <<"V", "i", "e", "w">>

\* A UI label inside whitespace.
TextViewPadded == <<" ", "V", "i", "e", "w", "\t">>

\* A title that starts like a UI label.
TextViews == <<"V", "i", "e", "w", "s">>

\* Two words, two spaces between them.
TextSpaced == <<"M", " ", " ", "A">>

\* Whitespace only.
TextBlank == <<" ", " ">>

\* get_text() of the elements a block can hold.
ElementTexts ==
    {TextRan, TextUp, TextView, TextViewPadded,
     TextViews, TextSpaced, TextBlank}

\* ^(Quick Shop|Buy Now|View|Released|Available)$
NonTitles ==
    {<<"Q", "u", "i", "c", "k", " ", "S", "h", "o", "p">>,
     <<"B", "u", "y", " ", "N", "o", "w">>,
     <<"V", "i", "e", "w">>,
     <<"R", "e", "l", "e", "a", "s", "e", "d">>,
     <<"A", "v", "a", "i", "l", "a", "b", "l", "e">>}

\* container.find(...) returning None.
NoElement == [present |-> FALSE, text |-> <<>>]

\* container.find(...) returning a Tag, with its get_text().
Element(text) == [present |-> TRUE, text |-> text]

Elements == {NoElement} \cup {Element(x) : x \in ElementTexts}

\* A block by what the three find() calls of the title rule return on it:
\* the first h1..h4, the first strong, the first anchor to /films/ or
\* /shop/product/.
Containers == [heading : Elements, strong : Elements, anchor : Elements]

RECURSIVE SplitWords(_, _, _)
\* text.split(): the maximal runs of non-whitespace characters.
SplitWords(text, word, words) ==
    IF text = <<>>
    THEN IF word = <<>> THEN words ELSE Append(words, word)
    ELSE IF Head(text) \in Whitespace
         THEN SplitWords(Tail(text), <<>>,
                         IF word = <<>> THEN words ELSE Append(words, word))
         ELSE SplitWords(Tail(text), Append(word, Head(text)), words)

RECURSIVE JoinWords(_)
\* ' '.join(words)
JoinWords(words) ==
    IF words = <<>> THEN <<>>
    ELSE IF Len(words) = 1 THEN words[1]
         ELSE words[1] \o <<" ">> \o JoinWords(Tail(words))

\* clean_text: '' for an empty text, else ' '.join(text.split()).strip().
clean_text(text) ==
    IF text = <<>> THEN <<>> ELSE JoinWords(SplitWords(text, <<>>, <<>>))

\* `title and len(title) > 2 and not re.match(...)`
IsTitle(title) ==
    /\ title # <<>>
    /\ Len(title) > 2
    /\ title \notin NonTitles

\* find(['h1','h2','h3','h4']) or find('strong') or find('a', href=...): a Tag
\* is truthy whatever its text, so this is the first element that exists.
FirstElement(c) ==
    IF c.heading.present THEN c.heading
    ELSE IF c.strong.present THEN c.strong
         ELSE c.anchor

\* data.get('title') of a dict without the key.
NoTitle == <<>>

\* The function returning None (a returned dict is <<data>>).
NoFilmData == <<>>

extractOthers ==
    <<gateVars, scraping_status, threadVars, clock, store, dbVars, histVars,
      callerVars, dateVars>>

\* data = {'release_status': status}
ExtractBegin ==
    /\ ex_pc = "called"
    /\ data' = [release_status |-> page_status, title |-> NoTitle]
    /\ ex_pc' = "find"
    /\ UNCHANGED <<extractOthers, container, page_status, title_elem, film_data>>

\* title_elem = (... or ... or ...)
FindTitleElem ==
    /\ ex_pc = "find"
    /\ title_elem' = FirstElement(container)
    /\ ex_pc' = "title"
    /\ UNCHANGED <<extractOthers, container, page_status, data, film_data>>

\* `if title_elem:` ... `data['title'] = title`
DeriveTitle ==
    /\ ex_pc = "title"
    /\ LET title == clean_text(title_elem.text)
       IN  data' = IF title_elem.present /\ IsTitle(title)
                   THEN [data EXCEPT !.title = title]
                   ELSE data
    /\ ex_pc' = "return"
    /\ UNCHANGED <<extractOthers, container, page_status, title_elem, film_data>>

\* `if data.get('title'): return data`, else `return None`.  The rules between
\* the title and this test set other keys of data only.
ExtractReturn ==
    /\ ex_pc = "return"
    /\ film_data' = IF data.title # NoTitle THEN <<data>> ELSE NoFilmData
    /\ ex_pc' = "returned"
    /\ UNCHANGED <<extractOthers, container, page_status, title_elem, data>>

\* No extract_film_data call under way.
NoExtraction ==
    /\ container = [heading |-> NoElement, strong |-> NoElement,
                    anchor |-> NoElement]
    /\ page_status = "released"
    /\ ex_pc = "idle"
    /\ title_elem = NoElement
    /\ data = [release_status |-> "released", title |-> NoTitle]
    /\ film_data = NoFilmData


(***************************************************************************)
(* parse_release_date.  A text is the sequence of the date mentions in it  *)
(* (what lies between them matches no pattern); a mention is the word in   *)
(* front of a date string and the date string.                             *)
(***************************************************************************)

\* Most date mentions in one text.
MaxMentions == 2

\* A date string written with a month word, e.g. "March 5, 2024".
Words(month, day, comma, year) ==
    [kind |-> "words", month |-> month, day |-> day, comma |-> comma,
     year |-> year]

\* A date string written with slashes, e.g. "3/5/2024".
Numeric(month, day, year) ==
    [kind |-> "numeric", month |-> month, day |-> day, comma |-> FALSE,
     year |-> year]

\* "March 5, 2024", "Mar 5, 2024", "March 5 2024", "May 5, 2024",
\* "Sept 12, 2024", "3/5/2024", "13/5/2024".
DateStrings ==
    {Words("March", 5, TRUE, 2024), Words("Mar", 5, TRUE, 2024),
     Words("March", 5, FALSE, 2024), Words("May", 5, TRUE, 2024),
     Words("Sept", 12, TRUE, 2024), Numeric("3", 5, 2024),
     Numeric("13", 5, 2024)}

\* The word in front of a date string.
Prefixes == {"Released", "Available", "none"}

Mentions == [prefix : Prefixes, date : DateStrings]

DateTexts == SeqsUpTo(Mentions, MaxMentions)

\* re.search found nothing.
NoMatch ==
    [kind |-> "none", month |-> "", day |-> 0, comma |-> FALSE, year |-> 0]

\* The function returning None.
NoDate == <<>>

\* patterns, in order: Released + month word date, Available + month word
\* date, a month word date, a date with slashes.
Patterns == <<"released", "available", "bare", "slashes">>

\* Whether the pattern matches at the mention.
MatchesPattern(pattern, mention) ==
    CASE pattern = "released" ->
            mention.prefix = "Released" /\ mention.date.kind = "words"
      [] pattern = "available" ->
            mention.prefix = "Available" /\ mention.date.kind = "words"
      [] pattern = "bare" -> mention.date.kind = "words"
      [] OTHER -> mention.date.kind = "numeric"

\* re.search(pattern, date_text).group(1): the date string of the leftmost
\* mention the pattern matches at, NoMatch when there is none.
Search(pattern, text) ==
    LET hits == {i \in 1..Len(text) : MatchesPattern(pattern, text[i])}
    IN  IF hits = {} THEN NoMatch
        ELSE text[CHOOSE i \in hits : \A j \in hits : i <= j].date

\* %B: the month of a full month name, 0 for another word.
FullMonth(word) ==
    CASE word = "March" -> 3 [] word = "May" -> 5 [] OTHER -> 0

\* %b: the month of an abbreviated month name, 0 for another word.
AbbreviatedMonth(word) ==
    CASE word = "Mar" -> 3 [] word = "May" -> 5 [] OTHER -> 0

\* %m: the month of one or two digits, 0 when it is not in 1..12.
NumericMonth(digits) ==
    CASE digits = "3" -> 3 [] OTHER -> 0

\* The formats, in order.
Formats == <<"%B %d, %Y", "%b %d, %Y", "%m/%d/%Y", "%B %d %Y">>

\* datetime.strptime(date_str, fmt).strftime('%Y-%m-%d'): year, month and
\* day in that order, NoDate for ValueError.
Strptime(date_str, fmt) ==
    LET month ==
            CASE fmt = "%B %d, %Y" ->
                    IF date_str.kind = "words" /\ date_str.comma
                    THEN FullMonth(date_str.month) ELSE 0
              [] fmt = "%b %d, %Y" ->
                    IF date_str.kind = "words" /\ date_str.comma
                    THEN AbbreviatedMonth(date_str.month) ELSE 0
              [] fmt = "%m/%d/%Y" ->
                    IF date_str.kind = "numeric"
                    THEN NumericMonth(date_str.month) ELSE 0
              [] OTHER ->
                    IF date_str.kind = "words" /\ ~date_str.comma
                    THEN FullMonth(date_str.month) ELSE 0
    IN  IF month = 0 \/ date_str.day \notin 1..31 THEN NoDate
        ELSE <<date_str.year, month, date_str.day>>

\* The loop over the formats: the first that parses, NoDate when none does.
FirstParse(date_str) ==
    LET ok == {k \in 1..Len(Formats) : Strptime(date_str, Formats[k]) # NoDate}
    IN  IF ok = {} THEN NoDate
        ELSE Strptime(date_str, Formats[CHOOSE k \in ok : \A j \in ok : k <= j])

dateOthers ==
    <<gateVars, scraping_status, threadVars, clock, store, dbVars, histVars,
      callerVars, extractVars>>

\* `if not date_text: return None`, else the loop over the patterns starts.
DateBegin ==
    /\ date_pc = "called"
    /\ IF date_text = <<>>
       THEN /\ parsed_date' = NoDate
            /\ date_pc' = "returned"
       ELSE /\ date_pc' = "patterns"
            /\ UNCHANGED parsed_date
    /\ pattern_idx' = 1
    /\ UNCHANGED <<dateOthers, date_text>>

\* One iteration of `for pattern in patterns`: when the pattern matches and
\* a format parses its group, that date is returned; when it does not match,
\* or no format parses, the loop goes on to the next pattern.
TryPattern ==
    /\ date_pc = "patterns"
    /\ pattern_idx <= Len(Patterns)
    /\ LET date_str == Search(Patterns[pattern_idx], date_text)
           got == IF date_str = NoMatch THEN NoDate ELSE FirstParse(date_str)
       IN  IF got # NoDate
           THEN /\ parsed_date' = got
                /\ date_pc' = "returned"
                /\ UNCHANGED pattern_idx
           ELSE /\ pattern_idx' = pattern_idx + 1
                /\ UNCHANGED <<parsed_date, date_pc>>
    /\ UNCHANGED <<dateOthers, date_text>>

\* The `return None` after the loop.
DateReturnNone ==
    /\ date_pc = "patterns"
    /\ pattern_idx > Len(Patterns)
    /\ parsed_date' = NoDate
    /\ date_pc' = "returned"
    /\ UNCHANGED <<dateOthers, date_text, pattern_idx>>

\* No parse_release_date call under way.
NoDateParse ==
    /\ date_text = <<>>
    /\ date_pc = "idle"
    /\ pattern_idx = 1
    /\ parsed_date = NoDate


(***************************************************************************)
(* run_scraper_background (app.py), one action per statement group.        *)
(***************************************************************************)

\* Mutant: scheduled_scraping without its `while True`.
AfterReturnEndsThread(t) == "done"

\* Where a thread goes when run_scraper_background returns: a trigger's
\* thread ends, the scheduler thread goes back to time.sleep.
AfterReturn(t) == IF t = Scheduler THEN "sleep" ELSE "done"

\* Mutant: the lock never blocks.
LockNeverHeld == TRUE

\* threading.Lock: acquirable when no thread holds it.
LockFree == SCRAPER_LOCK = NoThread

\* `with SCRAPER_LOCK:` entry.
AcquireLock(t) ==
    /\ pc[t] = "acquire"
    /\ LockFree
    /\ SCRAPER_LOCK' = t
    /\ pc' = [pc EXCEPT ![t] = "test"]
    /\ UNCHANGED <<SCRAPE_IN_PROGRESS, scraping_status, ret, resp, triggers,
                   page_idx, all_films, exc, clock, store, dbVars, histVars,
                   callerVars, extractVars, dateVars>>

\* Mutant: the busy return passes through the finally clause.
TestFlagThroughFinally(t) ==
    /\ pc[t] = "test"
    /\ IF SCRAPE_IN_PROGRESS
       THEN /\ SCRAPER_LOCK' = NoThread
            /\ ret' = [ret EXCEPT ![t] = "False"]
            /\ pc' = [pc EXCEPT ![t] = AfterReturn(t)]
            /\ scraping_status' = [scraping_status EXCEPT !.in_progress = FALSE]
       ELSE /\ pc' = [pc EXCEPT ![t] = "set"]
            /\ UNCHANGED <<SCRAPER_LOCK, ret, scraping_status>>
    /\ UNCHANGED <<SCRAPE_IN_PROGRESS, resp, triggers, page_idx, all_films, exc,
                   clock, store, dbVars, histVars, callerVars, extractVars, dateVars>>

\* `if SCRAPE_IN_PROGRESS: return False` (leaving the with block releases the
\* lock; the try/finally below is never entered).
TestFlag(t) ==
    /\ pc[t] = "test"
    /\ IF SCRAPE_IN_PROGRESS
       THEN /\ SCRAPER_LOCK' = NoThread
            /\ ret' = [ret EXCEPT ![t] = "False"]
            /\ pc' = [pc EXCEPT ![t] = AfterReturn(t)]
       ELSE /\ pc' = [pc EXCEPT ![t] = "set"]
            /\ UNCHANGED <<SCRAPER_LOCK, ret>>
    /\ UNCHANGED <<SCRAPE_IN_PROGRESS, scraping_status, resp, triggers, page_idx,
                   all_films, exc, clock, store, dbVars, histVars, callerVars, extractVars, dateVars>>

\* `SCRAPE_IN_PROGRESS = True`, end of the with block.
SetFlag(t) ==
    /\ pc[t] = "set"
    /\ SCRAPE_IN_PROGRESS' = TRUE
    /\ SCRAPER_LOCK' = NoThread
    /\ pc' = [pc EXCEPT ![t] = "enter"]
    /\ snap' = [last_success |-> scraping_status.last_success,
                total_films |-> scraping_status.total_films,
                error_message |-> scraping_status.error_message]
    /\ start_rows' = store
    /\ pages' = <<>>
    /\ UNCHANGED <<scraping_status, ret, resp, triggers, page_idx, all_films, exc,
                   clock, store, dbVars, last_outcome, callerVars, extractVars, dateVars>>

\* Mutant: the error of the previous run is not cleared.
EnteredStatusKeepsError(status, now) ==
    [status EXCEPT !.in_progress = TRUE, !.last_run = now]

\* The first three statements of the try block.
EnteredStatus(status, now) ==
    [status EXCEPT !.in_progress = TRUE, !.last_run = now,
                   !.error_message = NULL]

EnterTry(t) ==
    /\ pc[t] = "enter"
    /\ scraping_status' = EnteredStatus(scraping_status, clock)
    /\ pc' = [pc EXCEPT ![t] = "init"]
    /\ UNCHANGED <<gateVars, ret, resp, triggers, page_idx, all_films, exc, clock,
                   store, dbVars, histVars, callerVars, extractVars, dateVars>>

\* CriterionScraper(DATABASE_PATH): init_database creates the table if it is
\* missing; run_scraper starts with all_films = [].
InitDatabase(t) ==
    /\ pc[t] = "init"
    /\ pc' = [pc EXCEPT ![t] = "page"]
    /\ page_idx' = [page_idx EXCEPT ![t] = 1]
    /\ all_films' = [all_films EXCEPT ![t] = <<>>]
    /\ UNCHANGED <<gateVars, scraping_status, ret, resp, triggers, exc, clock,
                   store, dbVars, histVars, callerVars, extractVars, dateVars>>

\* init_database's sqlite3.connect raises: the exception leaves the
\* constructor and reaches the except clause of run_scraper_background.
InitDatabaseRaises(t) ==
    /\ pc[t] = "init"
    /\ exc' = [exc EXCEPT ![t] = "unable to open database file"]
    /\ pc' = [pc EXCEPT ![t] = "except"]
    /\ UNCHANGED <<gateVars, scraping_status, ret, resp, triggers, page_idx,
                   all_films, clock, store, dbVars, histVars, callerVars, extractVars, dateVars>>


(***************************************************************************)
(* run_scraper: the loop over self.urls.  fetch_page catches                *)
(* requests.RequestException only (timeout, connection error, the          *)
(* HTTPError of raise_for_status); what BeautifulSoup raises on a body it  *)
(* rejects is not one and leaves fetch_page, scrape_releases_page and      *)
(* run_scraper.                                                            *)
(***************************************************************************)

RequestErrors == {"timeout", "connection", "http_status"}

\* Whether `except requests.RequestException` catches the failure.
CaughtByFetchPage(failure) == failure \in RequestErrors

\* The page is fetched and parsed; its films are appended; rate_limit sleeps.
ScrapePage(t) ==
    /\ pc[t] = "page"
    /\ page_idx[t] <= Len(Urls)
    /\ \E content \in PageContents :
          LET got == ScrapedFilms(content, StatusOf(Urls[page_idx[t]]))
          IN  /\ all_films' = [all_films EXCEPT ![t] = @ \o got]
              /\ pages' = Append(pages, [result |-> "ok", films |-> got])
    /\ page_idx' = [page_idx EXCEPT ![t] = @ + 1]
    /\ clock' = clock + 1
    /\ UNCHANGED <<gateVars, scraping_status, pc, ret, resp, triggers, exc, store,
                   dbVars, snap, start_rows, last_outcome, callerVars, extractVars, dateVars>>

\* The fetch fails: fetch_page returns None and the page contributes [] when
\* the failure is caught, else the exception ends run_scraper.
ScrapePageFails(t) ==
    /\ pc[t] = "page"
    /\ page_idx[t] <= Len(Urls)
    /\ \E failure \in RequestErrors \cup {"parse"} :
          /\ pages' = Append(pages, [result |-> failure, films |-> <<>>])
          /\ IF CaughtByFetchPage(failure)
             THEN /\ page_idx' = [page_idx EXCEPT ![t] = @ + 1]
                  /\ clock' = clock + 1
                  /\ UNCHANGED <<pc, exc>>
             ELSE /\ exc' = [exc EXCEPT ![t] = "markup rejected by the parser"]
                  /\ pc' = [pc EXCEPT ![t] = "except"]
                  /\ UNCHANGED <<page_idx, clock>>
    /\ UNCHANGED <<gateVars, scraping_status, ret, resp, triggers, all_films, store,
                   dbVars, snap, start_rows, last_outcome, callerVars, extractVars, dateVars>>

\* Mutant: the save sits inside the loop, after the first page.
AfterPagesEarly(t) ==
    /\ pc[t] = "page"
    /\ page_idx[t] > 1
    /\ IF all_films[t] # <<>>
       THEN /\ db_phase = "idle"
            /\ db_phase' = "called"
            /\ films' = all_films[t]
            /\ pc' = [pc EXCEPT ![t] = "saving"]
       ELSE /\ pc' = [pc EXCEPT ![t] = "count"]
            /\ UNCHANGED <<db_phase, films>>
    /\ UNCHANGED <<gateVars, scraping_status, ret, resp, triggers, page_idx,
                   all_films, exc, clock, store, idx, txn, pre, failed, histVars,
                   callerVars, extractVars, dateVars>>

\* After the loop: `if all_films: self.save_to_database(all_films)`.
AfterPages(t) ==
    /\ pc[t] = "page"
    /\ page_idx[t] > Len(Urls)
    /\ IF all_films[t] # <<>>
       THEN /\ db_phase = "idle"
            /\ db_phase' = "called"
            /\ films' = all_films[t]
            /\ pc' = [pc EXCEPT ![t] = "saving"]
       ELSE /\ pc' = [pc EXCEPT ![t] = "count"]
            /\ UNCHANGED <<db_phase, films>>
    /\ UNCHANGED <<gateVars, scraping_status, ret, resp, triggers, page_idx,
                   all_films, exc, clock, store, idx, txn, pre, failed, histVars,
                   callerVars, extractVars, dateVars>>

\* save_to_database returned to run_scraper, which returns len(all_films).
SaveReturned(t) ==
    /\ pc[t] = "saving"
    /\ db_phase = "returned"
    /\ db_phase' = "idle"
    /\ films' = <<>>
    /\ idx' = 1
    /\ txn' = StartAcc(<<>>)
    /\ pre' = <<>>
    /\ failed' = {}
    /\ pc' = [pc EXCEPT ![t] = "count"]
    /\ UNCHANGED <<gateVars, scraping_status, ret, resp, triggers, page_idx,
                   all_films, exc, clock, store, histVars, callerVars, extractVars, dateVars>>

\* save_to_database raised: the exception leaves run_scraper.
SaveRaised(t) ==
    /\ pc[t] = "saving"
    /\ db_phase = "raised"
    /\ db_phase' = "idle"
    /\ films' = <<>>
    /\ exc' = [exc EXCEPT ![t] = "unable to open database file"]
    /\ pc' = [pc EXCEPT ![t] = "except"]
    /\ UNCHANGED <<gateVars, scraping_status, ret, resp, triggers, page_idx,
                   all_films, clock, store, idx, txn, pre, failed, histVars,
                   callerVars, extractVars, dateVars>>

\* Mutant: last_success is not set.
CompletedStatusNoSuccess(status, now, total) ==
    [status EXCEPT !.total_films = total, !.error_message = NULL]

\* Mutant: total_films is left as it was.
CompletedStatusStaleTotal(status, now, total) ==
    [status EXCEPT !.last_success = now, !.error_message = NULL]

\* The statements after run_scraper: SELECT COUNT(*), last_success,
\* total_films, error_message.
CompletedStatus(status, now, total) ==
    [status EXCEPT !.last_success = now, !.total_films = total,
                   !.error_message = NULL]

UpdateStatus(t) ==
    /\ pc[t] = "count"
    /\ scraping_status' = CompletedStatus(scraping_status, clock, Len(store))
    /\ last_outcome' = "completed"
    /\ pc' = [pc EXCEPT ![t] = "finally"]
    /\ UNCHANGED <<gateVars, ret, resp, triggers, page_idx, all_films, exc, clock,
                   store, dbVars, pages, snap, start_rows, callerVars, extractVars, dateVars>>

\* get_db_connection or the SELECT raises.
CountRaises(t) ==
    /\ pc[t] = "count"
    /\ exc' = [exc EXCEPT ![t] = "unable to open database file"]
    /\ pc' = [pc EXCEPT ![t] = "except"]
    /\ UNCHANGED <<gateVars, scraping_status, ret, resp, triggers, page_idx,
                   all_films, clock, store, dbVars, histVars, callerVars, extractVars, dateVars>>

\* Mutant: the exception is logged only.
FailedStatusLogsOnly(status, e) == status

\* except Exception as e: scraping_status.error_message = str(e)
FailedStatus(status, e) == [status EXCEPT !.error_message = e]

\* Mutant: the two resets sit at the end of the try block instead of in a
\* finally clause, so the except path returns without them.
ExceptNoFinally(t) ==
    /\ pc[t] = "except"
    /\ scraping_status' = FailedStatus(scraping_status, exc[t])
    /\ exc' = [exc EXCEPT ![t] = NULL]
    /\ last_outcome' = "raised"
    /\ ret' = [ret EXCEPT ![t] = "None"]
    /\ pc' = [pc EXCEPT ![t] = AfterReturn(t)]
    /\ UNCHANGED <<gateVars, resp, triggers, page_idx, all_films, clock, store,
                   dbVars, pages, snap, start_rows, callerVars, extractVars, dateVars>>

Except(t) ==
    /\ pc[t] = "except"
    /\ scraping_status' = FailedStatus(scraping_status, exc[t])
    /\ exc' = [exc EXCEPT ![t] = NULL]
    /\ last_outcome' = "raised"
    /\ pc' = [pc EXCEPT ![t] = "finally"]
    /\ UNCHANGED <<gateVars, ret, resp, triggers, page_idx, all_films, clock, store,
                   dbVars, pages, snap, start_rows, callerVars, extractVars, dateVars>>

\* Mutant: the finally clause resets SCRAPE_IN_PROGRESS only.
FinallyKeepsInProgress(t) ==
    /\ pc[t] = "finally"
    /\ pc' = [pc EXCEPT ![t] = "release"]
    /\ UNCHANGED <<gateVars, scraping_status, ret, resp, triggers, page_idx,
                   all_films, exc, clock, store, dbVars, histVars, callerVars,
                   extractVars, dateVars>>

\* finally: scraping_status.in_progress = False
Finally(t) ==
    /\ pc[t] = "finally"
    /\ scraping_status' = [scraping_status EXCEPT !.in_progress = FALSE]
    /\ pc' = [pc EXCEPT ![t] = "release"]
    /\ UNCHANGED <<gateVars, ret, resp, triggers, page_idx, all_films, exc, clock,
                   store, dbVars, histVars, callerVars, extractVars, dateVars>>

\* finally: SCRAPE_IN_PROGRESS = False; the function returns None.
Release(t) ==
    /\ pc[t] = "release"
    /\ SCRAPE_IN_PROGRESS' = FALSE
    /\ ret' = [ret EXCEPT ![t] = "None"]
    /\ pc' = [pc EXCEPT ![t] = AfterReturn(t)]
    /\ page_idx' = [page_idx EXCEPT ![t] = 1]
    /\ all_films' = [all_films EXCEPT ![t] = <<>>]
    /\ pages' = <<>>
    /\ start_rows' = <<>>
    /\ UNCHANGED <<SCRAPER_LOCK, scraping_status, resp, triggers, exc, clock, store,
                   dbVars, snap, last_outcome, callerVars, extractVars, dateVars>>


(***************************************************************************)
(* The triggers: the two POST routes and the scheduler thread.             *)
(***************************************************************************)

FormRequests == {"m1"}

ApiRequests == {"m2"}

\* Both routes: answer busy when scraping_status.in_progress, else start a
\* thread on run_scraper_background and answer started.
Trigger(r) ==
    /\ resp[r] = "none"
    /\ triggers < MaxTriggers
    /\ triggers' = triggers + 1
    /\ IF scraping_status.in_progress
       THEN /\ resp' = [resp EXCEPT ![r] = "busy"]
            /\ UNCHANGED pc
       ELSE /\ resp' = [resp EXCEPT ![r] = "started"]
            /\ pc' = [pc EXCEPT ![r] = "acquire"]
    /\ UNCHANGED <<gateVars, scraping_status, ret, page_idx, all_films, exc,
                   clock, store, dbVars, histVars, callerVars, extractVars, dateVars>>

\* POST /scrape
trigger_scrape(r) == r \in FormRequests /\ Trigger(r)

\* POST /api/scrape
api_trigger_scrape(r) == r \in ApiRequests /\ Trigger(r)

\* scheduled_scraping: time.sleep(24 * 60 * 60) ends and the loop calls
\* run_scraper_background.
scheduled_scraping ==
    /\ pc[Scheduler] = "sleep"
    /\ triggers < MaxTriggers
    /\ triggers' = triggers + 1
    /\ pc' = [pc EXCEPT ![Scheduler] = "acquire"]
    /\ ret' = [ret EXCEPT ![Scheduler] = "none"]
    /\ UNCHANGED <<gateVars, scraping_status, resp, page_idx, all_films, exc,
                   clock, store, dbVars, histVars, callerVars, extractVars, dateVars>>

(***************************************************************************)
(* Specifications.                                                         *)
(***************************************************************************)

\* Module level of app.py, then init_app: total_films from SELECT COUNT(*).
InitStatus(rows) ==
    [in_progress |-> FALSE, last_run |-> NoTime, last_success |-> NoTime,
     total_films |-> Len(rows), error_message |-> NULL]

InitCommon ==
    /\ SCRAPER_LOCK = NoThread
    /\ SCRAPE_IN_PROGRESS = FALSE
    /\ scraping_status = InitStatus(store)
    /\ pc = [t \in Threads |-> IF t = Scheduler THEN "sleep" ELSE "idle"]
    /\ ret = [t \in Threads |-> "none"]
    /\ resp = [r \in Manual |-> "none"]
    /\ triggers = 0
    /\ page_idx = [t \in Threads |-> 1]
    /\ all_films = [t \in Threads |-> <<>>]
    /\ exc = [t \in Threads |-> NULL]
    /\ clock = 2
    /\ db_phase = "idle"
    /\ idx = 1
    /\ txn = StartAcc(<<>>)
    /\ pre = <<>>
    /\ failed = {}
    /\ pages = <<>>
    /\ snap = [last_success |-> NoTime, total_films |-> Len(store),
               error_message |-> NULL]
    /\ start_rows = <<>>
    /\ last_outcome = "none"
    /\ pass = 0
    /\ after_first = [rows |-> store, errors |-> 0]

\* The web process: triggers, the scheduler and the runs they start.
Init ==
    /\ store = <<>>
    /\ films = <<>>
    /\ InitCommon
    /\ NoExtraction
    /\ NoDateParse

ThreadStep(t) ==
    \/ AcquireLock(t)
    \/ TestFlag(t)
    \/ SetFlag(t)
    \/ EnterTry(t)
    \/ InitDatabase(t)
    \/ InitDatabaseRaises(t)
    \/ ScrapePage(t)
    \/ ScrapePageFails(t)
    \/ AfterPages(t)
    \/ SaveReturned(t)
    \/ SaveRaised(t)
    \/ UpdateStatus(t)
    \/ CountRaises(t)
    \/ Except(t)
    \/ Finally(t)
    \/ Release(t)

DbStep ==
    \/ DbEnter
    \/ DbConnectRaises
    \/ DbIterate
    \/ DbCommit

Next ==
    \/ \E r \in Manual : trigger_scrape(r)
    \/ \E r \in Manual : api_trigger_scrape(r)
    \/ scheduled_scraping
    \/ \E t \in Threads : ThreadStep(t)
    \/ DbStep

Spec == Init /\ [][Next]_vars

\* Threads are scheduled and every blocking call is bounded (the 30 s request
\* timeout, the 2 s rate limit, sqlite's busy timeout): a thread that can
\* take a step of run_scraper_background eventually takes one.
FairSpec ==
    /\ Spec
    /\ \A t \in Threads : WF_vars(ThreadStep(t))
    /\ WF_vars(DbStep)

\* FairSpec, and time.sleep(24 * 60 * 60) returns: the scheduler thread wakes
\* up whenever it sleeps.
TimerSpec ==
    /\ FairSpec
    /\ WF_vars(scheduled_scraping)

\* save_to_database alone: a list of films saved twice into a seeded table.
InitStore ==
    /\ store \in SeedStores
    /\ films \in Batches
    /\ InitCommon
    /\ NoExtraction
    /\ NoDateParse

NextStore ==
    \/ CallSave
    \/ DbEnter
    \/ DbIterate
    \/ DbCommit
    \/ CallReturn

SpecStore == InitStore /\ [][NextStore]_vars

\* extract_film_data alone, called on a block with the status of a page.
InitExtract ==
    /\ store = <<>>
    /\ films = <<>>
    /\ InitCommon
    /\ container \in Containers
    /\ page_status \in {StatusOf(Urls[i]) : i \in 1..Len(Urls)}
    /\ ex_pc = "called"
    /\ title_elem = NoElement
    /\ data = [release_status |-> page_status, title |-> NoTitle]
    /\ film_data = NoFilmData
    /\ NoDateParse

NextExtract ==
    \/ ExtractBegin
    \/ FindTitleElem
    \/ DeriveTitle
    \/ ExtractReturn

SpecExtract == InitExtract /\ [][NextExtract]_vars

\* parse_release_date alone, called on a text.
InitDate ==
    /\ store = <<>>
    /\ films = <<>>
    /\ InitCommon
    /\ NoExtraction
    /\ date_text \in DateTexts
    /\ date_pc = "called"
    /\ pattern_idx = 1
    /\ parsed_date = NoDate

NextDate ==
    \/ DateBegin
    \/ TryPattern
    \/ DateReturnNone

SpecDate == InitDate /\ [][NextDate]_vars


(***************************************************************************)
(* Properties of the gate and of the run status.                           *)
(***************************************************************************)

\* Positions between `SCRAPE_IN_PROGRESS = True` and `SCRAPE_IN_PROGRESS = False`.
RunningPcs ==
    {"enter", "init", "page", "saving", "count", "except", "finally", "release"}

Running(t) == pc[t] \in RunningPcs

Idle == ~SCRAPE_IN_PROGRESS

\* C1: in every reachable state at most one thread, manual or scheduler, is
\* between setting SCRAPE_IN_PROGRESS and resetting it, and the flag is set
\* exactly while one is.
C1_SingleFlight ==
    /\ Cardinality({t \in Threads : Running(t)}) <= 1
    /\ SCRAPE_IN_PROGRESS <=> \E t \in Threads : Running(t)

\* C1 witness: one thread is fetching pages while another has reached the
\* test of the flag.
C1_Witness ==
    \E t \in Threads, u \in Threads :
        t # u /\ pc[t] = "page" /\ pc[u] = "test"

\* C2 as claimed: a request is answered "started" only if the call it started
\* entered Running (did not return False), and "busy" only if it started no
\* call at all.
C2_StartedIffEntered ==
    \A r \in Manual :
        /\ resp[r] = "started" => ret[r] # "False"
        /\ resp[r] = "busy" => pc[r] = "idle"

\* C3: the step of a call that finds the flag set changes no field of the
\* status, nothing of the table, no page result and no film list; it returns
\* False; and a thread leaves its resting position only on a new trigger
\* event, so nothing is queued behind the current run.
C3_BusyDoesNothing ==
    [][\A t \in Threads :
          /\ (pc[t] = "test" /\ SCRAPE_IN_PROGRESS /\ pc'[t] # pc[t]) =>
                /\ scraping_status' = scraping_status
                /\ SCRAPE_IN_PROGRESS' = SCRAPE_IN_PROGRESS
                /\ store' = store
                /\ db_phase' = db_phase
                /\ pages' = pages
                /\ all_films' = all_films
                /\ ret'[t] = "False"
                /\ pc'[t] = AfterReturn(t)
          /\ (pc[t] \in {"idle", "done", "sleep"} /\ pc'[t] # pc[t]) =>
                /\ triggers' = triggers + 1
                /\ pc[t] # "done"]_vars

\* C3 witness: a call was refused and the run that refused it has ended.
C3_Witness ==
    \E t \in Threads : ret[t] = "False" /\ Idle /\ last_outcome # "none"

\* C4: under fair scheduling every thread that is Running, on the normal
\* path or with an exception propagating, eventually has returned None with
\* the flag reset and in_progress false, which is the state a trigger needs
\* to start the next run.
C4_RunEndsIdle ==
    \A t \in Threads :
        Running(t) ~>
            (~Running(t) /\ ret[t] = "None" /\ Idle /\ ~scraping_status.in_progress)

\* C4 witness: a run holds the gate after an earlier run ended by an
\* exception.
C4_Witness ==
    /\ last_outcome = "raised"
    /\ \E t \in Threads : pc[t] = "enter"

\* C5: once the except clause has run, and on into Idle, error_message is the
\* message of the exception, last_success and total_films are what they were
\* when the run took the gate; in Idle in_progress is false, so the next
\* trigger starts a run.
C5_FailedRun ==
    /\ \A t \in Threads :
          (pc[t] \in {"finally", "release"} /\ last_outcome = "raised") =>
              /\ scraping_status.error_message \in
                    {"unable to open database file", "markup rejected by the parser"}
              /\ (pages # <<>> /\ pages[Len(pages)].result = "parse") =>
                    scraping_status.error_message = "markup rejected by the parser"
              /\ scraping_status.last_success = snap.last_success
              /\ scraping_status.total_films = snap.total_films
    /\ (Idle /\ last_outcome = "raised") =>
          /\ scraping_status.error_message # NULL
          /\ scraping_status.last_success = snap.last_success
          /\ scraping_status.total_films = snap.total_films
          /\ ~scraping_status.in_progress
          /\ \A t \in Threads : ~Running(t)

\* C5 witness: Idle after a run that raised, the run before it having
\* succeeded.
C5_Witness ==
    /\ Idle
    /\ last_outcome = "raised"
    /\ snap.last_success # NoTime
    /\ scraping_status.error_message # NULL


(***************************************************************************)
(* Properties of one run's pages.                                          *)
(***************************************************************************)

\* The run of thread t is over (the try block was left) and its page results
\* are still at hand.
RunOver(t) == pc[t] \in {"finally", "release"}

\* Two films that save_to_database inserts as two rows into `rows`: neither
\* matches a row or the other, and no spine number is taken.
TwoNewFilms(rows, fs) ==
    /\ Len(fs) = 2
    /\ SelectExisting(rows, fs[1]) = NoRow
    /\ SelectExisting(rows, fs[2]) = NoRow
    /\ ~(fs[1].title = fs[2].title
         /\ COALESCE(fs[1].director, "") = COALESCE(fs[2].director, ""))
    /\ UniqueSpine(rows, NoRow, fs[1].spine_number)
    /\ UniqueSpine(rows, NoRow, fs[2].spine_number)
    /\ (fs[1].spine_number = NULL \/ fs[1].spine_number # fs[2].spine_number)

\* The scenario of C6: the first page's fetch failed, the second page was
\* fetched and yielded two new films, and the run completed.
C6_Scenario(t) ==
    /\ RunOver(t)
    /\ last_outcome = "completed"
    /\ Len(pages) = 2
    /\ pages[1].result # "ok"
    /\ pages[2].result = "ok"
    /\ TwoNewFilms(start_rows, pages[2].films)

\* C6 as claimed: in the scenario error_message is set, the table has two
\* more rows and last_success is updated.
C6_ErrorDescribesPage ==
    \A t \in Threads :
        C6_Scenario(t) =>
            /\ scraping_status.error_message # NULL
            /\ Len(store) = Len(start_rows) + 2
            /\ scraping_status.last_success = clock

\* C6 amended: in the scenario error_message is None (the failure of the
\* first page is logged only), the table has the two films as two more rows
\* and last_success is updated to the time of completion, after last_run.
\* When the first page's failure is one fetch_page does not catch, the run
\* ends there instead: error_message is that exception's message, the second
\* page is not fetched, and neither the table nor last_success changes.
C6_PageFailureIsLoggedOnly ==
    \A t \in Threads :
        /\ C6_Scenario(t) =>
              /\ scraping_status.error_message = NULL
              /\ Len(store) = Len(start_rows) + 2
              /\ SubSeq(store, 1, Len(start_rows)) = start_rows
              /\ \A i \in 1..2 :
                    MatchesWhere(store[Len(start_rows) + i], pages[2].films[i])
              /\ scraping_status.last_success = clock
              /\ scraping_status.last_success > scraping_status.last_run
              /\ scraping_status.total_films = Len(store)
        /\ (RunOver(t) /\ pages # <<>> /\ ~CaughtByFetchPage(pages[1].result)
                       /\ pages[1].result # "ok") =>
              /\ Len(pages) = 1
              /\ last_outcome = "raised"
              /\ scraping_status.error_message = "markup rejected by the parser"
              /\ store = start_rows
              /\ scraping_status.last_success = snap.last_success

\* C6 witness: the scenario, the first page having timed out.
C6_Witness ==
    \E t \in Threads :
        /\ C6_Scenario(t)
        /\ pages[1].result = "timeout"
        /\ Len(store) = Len(start_rows) + 2

\* C7: while a run is past its first statements and before its end,
\* error_message is None; when it has completed normally, whatever its pages
\* and its writes did, error_message is None; and in Idle error_message is
\* set exactly when the most recent run ended in the except clause.
C7_ErrorOnlyOnRunFailure ==
    /\ \A t \in Threads :
          /\ pc[t] \in {"init", "page", "saving", "count"} =>
                scraping_status.error_message = NULL
          /\ (RunOver(t) /\ last_outcome = "completed") =>
                scraping_status.error_message = NULL
    /\ Idle => (scraping_status.error_message # NULL <=> last_outcome = "raised")

\* C7 witness: a run that started with an error message set has completed
\* normally although a page fetch failed and a record's write failed.
C7_Witness ==
    \E t \in Threads :
        /\ RunOver(t)
        /\ last_outcome = "completed"
        /\ snap.error_message # NULL
        /\ \E i \in 1..Len(pages) : pages[i].result \in RequestErrors
        /\ Len(store) < Len(all_films[t])
        /\ scraping_status.error_message = NULL

\* C8 as claimed: no thread propagates an exception of a page fetch, and a
\* run in which a fetch failed has nevertheless attempted every page by the
\* time it leaves the loop.
C8_FetchFailureContained ==
    \A t \in Threads :
        /\ exc[t] # "markup rejected by the parser"
        /\ (pc[t] \in {"saving", "count", "except", "finally", "release"}
            /\ \E i \in 1..Len(pages) : pages[i].result # "ok") =>
               Len(pages) = Len(Urls)


(***************************************************************************)
(* Properties of save_to_database.                                         *)
(***************************************************************************)

\* An iteration of the loop has just run: its film, and the row that film
\* matched before it (NoRow when none).
Iterated == db_phase \in {"loop", "returned"} /\ idx > 1

LastFilm == films[idx - 1]

Matched == SelectExisting(pre, LastFilm)

\* C9 as claimed: for a film that matched a row, each merged column holds the
\* row's old value where the film's is absent and the film's value where it
\* is populated.
C9_CoalesceAlways ==
    (Iterated /\ Matched # NoRow) =>
        \A f \in MergedFields :
            /\ LastFilm[f] = NULL => txn.rows[Matched][f] = pre[Matched][f]
            /\ LastFilm[f] # NULL => txn.rows[Matched][f] = LastFilm[f]

\* C9 amended: for a film that matched a row, each merged column holds the
\* row's old value where the film's is absent; where it is populated the
\* column holds the film's value when the UPDATE was applied, and when the
\* UPDATE failed (the film's spine number is held by another row) every
\* column of the row is as before.  The commit publishes exactly these rows.
C9_CoalesceWhenApplied ==
    /\ (Iterated /\ Matched # NoRow) =>
          /\ txn.outcome \in {"updated", "update_failed"}
          /\ \A f \in MergedFields :
                LastFilm[f] = NULL => txn.rows[Matched][f] = pre[Matched][f]
          /\ txn.outcome = "updated" =>
                \A f \in MergedFields :
                    LastFilm[f] # NULL => txn.rows[Matched][f] = LastFilm[f]
          /\ txn.outcome = "update_failed" =>
                /\ txn.rows = pre
                /\ LastFilm.spine_number # NULL
                /\ \E i \in 1..Len(pre) :
                      i # Matched /\ pre[i].spine_number = LastFilm.spine_number
    /\ (db_phase = "returned" /\ films # <<>>) => store = txn.rows

\* C9 witness: an applied update in which a populated column replaced a
\* different stored value and an absent one left a stored value in place.
C9_Witness ==
    /\ Iterated
    /\ Matched # NoRow
    /\ txn.outcome = "updated"
    /\ \E f \in MergedFields, g \in MergedFields :
          /\ LastFilm[f] # NULL
          /\ pre[Matched][f] \notin {NULL, LastFilm[f]}
          /\ LastFilm[g] = NULL
          /\ pre[Matched][g] # NULL

\* Two tables that differ in updated_at at most.
SameButUpdatedAt(a, b) ==
    /\ Len(a) = Len(b)
    /\ \A i \in 1..Len(a) :
          [a[i] EXCEPT !.updated_at = NoTime] = [b[i] EXCEPT !.updated_at = NoTime]

SecondSaveDone == db_phase = "returned" /\ pass = 2

KeyOf(r) == <<r.title, IF r.director = NULL THEN "" ELSE r.director>>

\* The rows that had the key of the last film before its iteration.
KeyHits == {i \in 1..Len(pre) : KeyOf(pre[i]) = KeyOf(LastFilm)}

\* The rows other than i are as they were before the iteration.
OthersUntouched(i) ==
    /\ Len(txn.rows) >= Len(pre)
    /\ \A j \in 1..Len(pre) : j # i => txn.rows[j] = pre[j]

\* C11 as claimed: a film updates a row exactly when a row has its key, and
\* is inserted as a new row otherwise.
C11_KeyDecidesOutcome ==
    Iterated =>
        /\ KeyHits # {} <=> txn.outcome = "updated"
        /\ KeyHits = {} => /\ txn.outcome = "inserted"
                           /\ Len(txn.rows) = Len(pre) + 1

\* C11 amended: which statement a film gets is decided by its key alone, the
\* UPDATE of the row with its key when there is one, the INSERT otherwise,
\* whatever the spine numbers are; the statement then applies, to that row
\* only or as one new row with the film's key, unless the film's spine number
\* is held by another row, in which case it fails and nothing changes.
C11_KeyDecidesStatement ==
    Iterated =>
        /\ KeyHits # {} <=> txn.outcome \in {"updated", "update_failed"}
        /\ KeyHits = {} <=> txn.outcome \in {"inserted", "insert_failed"}
        /\ Cardinality(KeyHits) <= 1
        /\ txn.outcome = "updated" =>
              /\ Len(txn.rows) = Len(pre)
              /\ \A i \in KeyHits :
                    /\ OthersUntouched(i)
                    /\ KeyOf(txn.rows[i]) = KeyOf(LastFilm)
        /\ txn.outcome = "inserted" =>
              /\ Len(txn.rows) = Len(pre) + 1
              /\ OthersUntouched(NoRow)
              /\ KeyOf(txn.rows[Len(txn.rows)]) = KeyOf(LastFilm)
        /\ txn.outcome \in {"update_failed", "insert_failed"} =>
              /\ txn.rows = pre
              /\ LastFilm.spine_number # NULL
              /\ \E i \in 1..Len(pre) :
                    /\ i \notin KeyHits
                    /\ pre[i].spine_number = LastFilm.spine_number

\* C11 witness: a film whose spine number a row with another key holds did
\* not match that row, and a film without director matched the row without
\* director of its title earlier in the same call.
C11_Witness ==
    /\ Iterated
    /\ idx = 3
    /\ KeyHits = {}
    /\ \E i \in 1..Len(pre) : pre[i].spine_number = LastFilm.spine_number
    /\ txn.outcome = "insert_failed"
    /\ films[1].director = NULL
    /\ txn.updated_count = 1

\* The scenario of C12: the table holds Seven Samurai by Akira Kurosawa with
\* no format, and the one film saved is Seven Samurai, Blu-ray, no director.
C12_Scenario ==
    /\ Iterated
    /\ Len(films) = 1
    /\ LastFilm.title = "Seven Samurai"
    /\ LastFilm.director = NULL
    /\ LastFilm.format = "Blu-ray"
    /\ \E i \in 1..Len(pre) :
          /\ pre[i].title = "Seven Samurai"
          /\ pre[i].director = "Akira Kurosawa"
          /\ pre[i].format = NULL

\* The stored rows of Seven Samurai by Akira Kurosawa.
DirectedSamurai ==
    {i \in 1..Len(pre) :
        pre[i].title = "Seven Samurai" /\ pre[i].director = "Akira Kurosawa"}

\* C12 as claimed: the stored row gets the format and keeps its director,
\* one update is counted and no row is added.
C12_MergedIntoDirected ==
    C12_Scenario =>
        /\ \A i \in DirectedSamurai :
              /\ txn.rows[i].format = "Blu-ray"
              /\ txn.rows[i].director = "Akira Kurosawa"
        /\ txn.updated_count = 1
        /\ Len(txn.rows) = Len(pre)

\* C12 amended: the film without director has the key (Seven Samurai, ''),
\* not the key of the stored row, so the stored row keeps every column (its
\* format stays absent).  With no director-less Seven Samurai row in the
\* table the film is inserted as a new row with format Blu-ray and no
\* director, one insert and no update counted (or is rejected, its spine
\* number taken, and nothing changes); with such a row in the table that row
\* is the one updated.  The commit publishes this.
C12_InsertedBesideDirected ==
    C12_Scenario =>
        /\ \A i \in DirectedSamurai : txn.rows[i] = pre[i]
        /\ (KeyHits = {} /\ txn.outcome = "inserted") =>
              /\ Len(txn.rows) = Len(pre) + 1
              /\ txn.rows[Len(txn.rows)].format = "Blu-ray"
              /\ txn.rows[Len(txn.rows)].director = NULL
              /\ txn.rows[Len(txn.rows)].title = "Seven Samurai"
              /\ txn.saved_count = 1
              /\ txn.updated_count = 0
        /\ (KeyHits = {} /\ txn.outcome # "inserted") =>
              /\ txn.outcome = "insert_failed"
              /\ txn.rows = pre
              /\ txn.saved_count = 0
              /\ txn.updated_count = 0
        /\ KeyHits # {} =>
              /\ Len(txn.rows) = Len(pre)
              /\ txn.saved_count = 0
              /\ txn.outcome = "updated" =>
                    /\ txn.updated_count = 1
                    /\ \A i \in KeyHits : txn.rows[i].format = "Blu-ray"
        /\ db_phase = "returned" => store = txn.rows

\* C12 witness: the scenario with no director-less row in the table, the
\* film inserted and committed beside the stored row.
C12_Witness ==
    /\ C12_Scenario
    /\ KeyHits = {}
    /\ db_phase = "returned"
    /\ pass = 1
    /\ Len(store) = Len(pre) + 1
    /\ store[Len(store)].director = NULL
    /\ \E i \in DirectedSamurai : store[i].format = NULL

\* No non-NULL spine number is held by two rows.
NoSharedSpine(rows) ==
    \A i \in 1..Len(rows), j \in 1..Len(rows) :
        (i # j /\ rows[i].spine_number # NULL) =>
            rows[i].spine_number # rows[j].spine_number

\* C13: neither the committed table nor the rows a save is working on ever
\* hold one non-NULL spine number twice.
C13_ExternalIdUnique ==
    /\ NoSharedSpine(store)
    /\ NoSharedSpine(txn.rows)

\* C13 witness: a save in which a statement was rejected has committed a
\* table with a spine number in it and with two rows that have none.
C13_Witness ==
    /\ db_phase = "returned"
    /\ failed # {}
    /\ \E i \in 1..Len(store) : store[i].spine_number # NULL
    /\ \E i \in 1..Len(store), j \in 1..Len(store) :
          /\ i # j
          /\ store[i].spine_number = NULL
          /\ store[j].spine_number = NULL

RECURSIVE KeptUpTo(_)
\* The first n films of the call without those whose statement raised.
KeptUpTo(n) ==
    IF n = 0 THEN <<>>
    ELSE IF n \in failed THEN KeptUpTo(n - 1)
         ELSE Append(KeptUpTo(n - 1), films[n])

\* C14: at every point of the loop the connection's rows are what saving the
\* films so far without the failed ones gives from the table the call found
\* (and none of those fails); every film so far that did not fail has a row
\* with its key; one error is counted per failed film and one insert or
\* update per other film; the loop ends only after the last film, and the
\* commit then publishes these rows.
C14_BestEffort ==
    /\ db_phase = "loop" =>
          LET without == SaveLoop(StartAcc(store), KeptUpTo(idx - 1), clock)
          IN  /\ txn.rows = without.rows
              /\ without.errors = 0
              /\ txn.errors = Cardinality(failed)
              /\ txn.saved_count + txn.updated_count
                    = (idx - 1) - Cardinality(failed)
              /\ \A i \in 1..(idx - 1) :
                    i \notin failed =>
                        \E j \in 1..Len(txn.rows) :
                            KeyOf(txn.rows[j]) = KeyOf(films[i])
    /\ (db_phase = "returned" /\ films # <<>>) =>
          /\ idx = Len(films) + 1
          /\ store = txn.rows
          /\ \A i \in 1..Len(films) :
                i \notin failed =>
                    \E j \in 1..Len(store) : KeyOf(store[j]) = KeyOf(films[i])

\* C14 witness: a save of four films has committed; the second failed, the
\* first was inserted before it, the third merged and the fourth inserted
\* after it.
C14_Witness ==
    /\ db_phase = "returned"
    /\ Len(films) = 4
    /\ failed = {2}
    /\ txn.saved_count = 2
    /\ txn.updated_count = 1
    /\ Len(store) = 2

(***************************************************************************)
(* Properties of a run's order of work and of its bookkeeping.             *)
(***************************************************************************)

RECURSIVE FilmsOf(_)
\* The films of the page results ps, in order.
FilmsOf(ps) ==
    IF ps = <<>> THEN <<>> ELSE ps[1].films \o FilmsOf(Tail(ps))

\* C15: the pages of a run are attempted one at a time in the order of
\* self.urls (page i of the run carries the status of Urls[i]); while fewer
\* than all pages have been attempted the table is what it was when the run
\* took the gate; save_to_database is called only by the thread that has left
\* the loop, with the films of all pages in page order, and once: a thread
\* never returns to the loop after the call.
C15_SaveOnceAfterAllPages ==
    /\ [](\A t \in Threads :
            /\ pc[t] = "page" =>
                  /\ Len(pages) = page_idx[t] - 1
                  /\ all_films[t] = FilmsOf(pages)
                  /\ \A i \in 1..Len(pages) :
                        \A k \in 1..Len(pages[i].films) :
                            pages[i].films[k].release_status = StatusOf(Urls[i])
            /\ (Running(t) /\ Len(pages) < Len(Urls)) =>
                  /\ store = start_rows
                  /\ db_phase = "idle"
            /\ pc[t] = "saving" =>
                  /\ Len(pages) = Len(Urls)
                  /\ films = all_films[t]
                  /\ films = FilmsOf(pages)
                  /\ films # <<>>)
    /\ [](db_phase # "idle" => \E t \in Threads : pc[t] = "saving")
    /\ [][/\ store' # store =>
                \E t \in Threads : pc[t] = "saving" /\ Len(pages) = Len(Urls)
          /\ (db_phase' = "called" /\ db_phase # "called") =>
                \E t \in Threads :
                    /\ pc[t] = "page"
                    /\ pc'[t] = "saving"
                    /\ Len(pages) = Len(Urls)
          /\ \A t \in Threads :
                /\ (pc'[t] = "page" /\ pc[t] # "page") => pc[t] = "init"
                /\ (pc'[t] = "init" /\ pc[t] # "init") => pc[t] = "enter"
                /\ page_idx'[t] # page_idx[t] =>
                      \/ /\ pc[t] = "page"
                         /\ page_idx'[t] = page_idx[t] + 1
                         /\ pages' # pages
                      \/ /\ pc[t] \in {"init", "release"}
                         /\ page_idx'[t] = 1
          /\ (pages' # pages /\ pages' # <<>>) =>
                /\ Len(pages') = Len(pages) + 1
                /\ SubSeq(pages', 1, Len(pages)) = pages]_vars

\* C15 witness: both pages yielded films and the one save of the run has
\* committed them.
C15_Witness ==
    \E t \in Threads :
        /\ pc[t] = "saving"
        /\ db_phase = "returned"
        /\ Len(pages) = 2
        /\ pages[1].films # <<>>
        /\ pages[2].films # <<>>
        /\ store # start_rows

\* C16: from the first statements of the try block to the end of the work
\* error_message is None and last_run is the time the run started, set
\* before the first page (the clock has advanced once per page since); when
\* the run has completed normally last_success is the time of completion, not
\* before last_run, and total_films is the number of rows; in Idle after a
\* run that completed, and on until the next run's save or failure,
\* total_films is the number of rows of the table.
C16_Bookkeeping ==
    /\ \A t \in Threads :
          /\ pc[t] = "init" =>
                /\ pages = <<>>
                /\ scraping_status.last_run = clock
          /\ pc[t] = "page" =>
                scraping_status.last_run + Len(pages) = clock
          /\ pc[t] \in {"init", "page", "saving", "count"} =>
                /\ scraping_status.in_progress
                /\ scraping_status.error_message = NULL
                /\ scraping_status.last_run # NoTime
                /\ scraping_status.last_run <= clock
          /\ (RunOver(t) /\ last_outcome = "completed") =>
                /\ scraping_status.last_success = clock
                /\ scraping_status.last_success >= scraping_status.last_run
                /\ scraping_status.total_films = Len(store)
    /\ (Idle /\ last_outcome = "completed") =>
          /\ ~scraping_status.in_progress
          /\ scraping_status.error_message = NULL
          /\ scraping_status.last_success >= scraping_status.last_run
          /\ scraping_status.total_films = Len(store)
    /\ (last_outcome = "completed"
        /\ \A t \in Threads : pc[t] \notin {"saving", "count", "except"}) =>
          scraping_status.total_films = Len(store)

\* C16 witness: Idle after a run that completed with rows in the table, the
\* run before it having left an error message.
C16_Witness ==
    /\ Idle
    /\ last_outcome = "completed"
    /\ snap.error_message # NULL
    /\ Len(store) > 0
    /\ scraping_status.total_films = Len(store)
    /\ scraping_status.last_success > scraping_status.last_run

\* C17: in_progress is true exactly while one thread is between the first
\* statement of the try block and the first of the finally clause; so it is
\* true only while exactly one thread holds the gate, and false whenever
\* SCRAPE_IN_PROGRESS is.
C17_InProgressOnlyInRun ==
    /\ scraping_status.in_progress <=>
          \E t \in Threads :
              pc[t] \in {"init", "page", "saving", "count", "except", "finally"}
    /\ scraping_status.in_progress =>
          /\ SCRAPE_IN_PROGRESS
          /\ Cardinality({t \in Threads : Running(t)}) = 1
    /\ ~SCRAPE_IN_PROGRESS => ~scraping_status.in_progress

\* C17 witness: in_progress is true while one thread counts the rows and
\* another waits for the lock.
C17_Witness ==
    /\ scraping_status.in_progress
    /\ \E t \in Threads, u \in Threads :
          t # u /\ pc[t] = "count" /\ pc[u] = "acquire"

Candidates(c) == <<c.heading, c.strong, c.anchor>>

\* The candidates whose cleaned text passes the title filter.
ValidCandidates(c) ==
    {i \in 1..3 :
        /\ Candidates(c)[i].present
        /\ IsTitle(clean_text(Candidates(c)[i].text))}

\* C19 as claimed: the block yields a dict whose title is the cleaned text of
\* the first candidate that passes the filter, and None only when no
\* candidate passes it.
C19_FirstValidCandidate ==
    ex_pc = "returned" =>
        LET valid == ValidCandidates(container)
        IN  IF valid # {}
            THEN LET first == CHOOSE i \in valid : \A j \in valid : i <= j
                 IN  film_data =
                        <<[release_status |-> page_status,
                           title |-> clean_text(Candidates(container)[first].text)]>>
            ELSE film_data = NoFilmData

(***************************************************************************)
(* The frame of a matched UPDATE.                                          *)
(***************************************************************************)

\* C20: a film that matched a row leaves the row's id, title, director and
\* created_at, the number of rows and every other row as they were; when the
\* UPDATE applied, updated_at is the time of the save, whatever the film
\* carries, and when it failed updated_at is as before; created_at is set by
\* the INSERT, to the time of that save.
C20_UpdateFrame ==
    /\ (Iterated /\ Matched # NoRow) =>
          LET old == pre[Matched]
              new == txn.rows[Matched]
          IN  /\ new.id = old.id
              /\ new.title = old.title
              /\ new.director = old.director
              /\ new.created_at = old.created_at
              /\ Len(txn.rows) = Len(pre)
              /\ OthersUntouched(Matched)
              /\ txn.outcome = "updated" =>
                    /\ new.updated_at = clock
                    /\ new.updated_at >= old.updated_at
                    /\ new.updated_at >= new.created_at
              /\ txn.outcome # "updated" => new = old
    /\ (Iterated /\ txn.outcome = "inserted") =>
          /\ txn.rows[Len(txn.rows)].created_at = clock
          /\ txn.rows[Len(txn.rows)].updated_at = clock
          /\ txn.rows[Len(txn.rows)].id = Len(pre) + 1

\* C20 witness: a film with every merged field absent matched a row; the row
\* kept all its values and got a later updated_at.
C20_Witness ==
    /\ Iterated
    /\ Matched # NoRow
    /\ txn.outcome = "updated"
    /\ \A f \in MergedFields : LastFilm[f] = NULL
    /\ \E f \in MergedFields : pre[Matched][f] # NULL
    /\ txn.rows[Matched].updated_at > pre[Matched].updated_at
    /\ txn.rows[Matched].created_at < txn.rows[Matched].updated_at
    /\ [txn.rows[Matched] EXCEPT !.updated_at = NoTime]
          = [pre[Matched] EXCEPT !.updated_at = NoTime]

(***************************************************************************)
(* What other connections see of a run's save.                             *)
(***************************************************************************)

\* The connection of a save holds some but not all of its films applied.
MidBatch == db_phase = "loop" /\ idx > 1 /\ idx <= Len(films)

\* C21 as claimed: while a save holds some but not all of its films applied,
\* a collaborator's read returns that state of the table.
C21_MidBatchVisible ==
    MidBatch => ReadByCollaborator = txn.rows

\* C21 amended: during a run a collaborator reads either the table as it was
\* when the run took the gate, up to the commit that ends the save, or,
\* from that commit on, the table with the whole batch merged; the table
\* changes in the commit step only, so no read returns a state with some but
\* not all of the batch applied; and once the run has completed every read
\* returns the whole batch merged.
C21_ReadersSeeWholeBatches ==
    /\ [](\A t \in Threads :
            Running(t) =>
                LET full == SaveLoop(StartAcc(start_rows), all_films[t], clock).rows
                IN  /\ ReadByCollaborator \in {start_rows, full}
                    /\ (\/ pc[t] \in {"enter", "init", "page"}
                        \/ pc[t] = "saving" /\ db_phase # "returned") =>
                           ReadByCollaborator = start_rows
                    /\ (\/ pc[t] = "saving" /\ db_phase = "returned"
                        \/ pc[t] = "count"
                        \/ RunOver(t) /\ last_outcome = "completed") =>
                           ReadByCollaborator = full)
    /\ [][store' # store =>
             /\ db_phase = "loop"
             /\ idx > Len(films)
             /\ db_phase' = "returned"
             /\ store' = txn.rows]_vars

\* C21 witness: a save has applied its first film and not yet its last, its
\* connection's rows are neither the table it found nor the whole batch
\* merged, and a collaborator still reads the table as it was.
C21_Witness ==
    \E t \in Threads :
        /\ pc[t] = "saving"
        /\ MidBatch
        /\ txn.rows # start_rows
        /\ txn.rows # SaveLoop(StartAcc(start_rows), all_films[t], clock).rows
        /\ ReadByCollaborator = start_rows

(***************************************************************************)
(* Properties of parse_release_date.                                       *)
(***************************************************************************)

\* The patterns that match somewhere in the text.
MatchingPatterns ==
    {p \in 1..Len(Patterns) : Search(Patterns[p], date_text) # NoMatch}

\* C22 as claimed: the result is the first successful parse of the date
\* string of the first pattern that matches, None when that string parses
\* under no format or when no pattern matches.
C22_FirstMatchingPatternOnly ==
    date_pc = "returned" =>
        IF MatchingPatterns = {} THEN parsed_date = NoDate
        ELSE LET first == CHOOSE p \in MatchingPatterns :
                              \A q \in MatchingPatterns : p <= q
             IN  parsed_date = FirstParse(Search(Patterns[first], date_text))

(***************************************************************************)
(* Further properties of save_to_database.                                 *)
(***************************************************************************)

\* No (title, director or '') pair is held by two rows.
NoSharedKey(rows) ==
    \A i \in 1..Len(rows), j \in 1..Len(rows) :
        i # j => KeyOf(rows[i]) # KeyOf(rows[j])

\* C23: neither the committed table nor the rows a save is working on ever
\* hold one identity key twice, whatever keys the saved lists repeat.
C23_IdentityKeyUnique ==
    /\ NoSharedKey(store)
    /\ NoSharedKey(txn.rows)

\* C23 witness: a list naming one identity key twice, in two different
\* films, has been saved into a table without that key: one insert, one
\* update, one row.
C23_Witness ==
    /\ db_phase = "returned"
    /\ pass = 1
    /\ Len(films) = 2
    /\ KeyOf(films[1]) = KeyOf(films[2])
    /\ films[1] # films[2]
    /\ txn.saved_count = 1
    /\ txn.updated_count = 1
    /\ Cardinality({i \in 1..Len(store) : KeyOf(store[i]) = KeyOf(films[1])}) = 1

\* The last film matched a row and carries a spine number that another row
\* holds.
SpineTakenByOther ==
    /\ Iterated
    /\ Matched # NoRow
    /\ LastFilm.spine_number # NULL
    /\ \E i \in 1..Len(pre) :
          i # Matched /\ pre[i].spine_number = LastFilm.spine_number

\* C24: the UPDATE of a matched row fails exactly when the film's spine
\* number is held by another row; then no row has changed, the matched row
\* keeps every column, updated_at included, and the film is counted as an
\* error, not as an update or an insert.
C24_FailedUpdateChangesNothing ==
    /\ SpineTakenByOther <=> (Iterated /\ txn.outcome = "update_failed")
    /\ SpineTakenByOther =>
          /\ txn.rows = pre
          /\ txn.rows[Matched] = pre[Matched]
          /\ (idx - 1) \in failed
          /\ txn.errors = Cardinality(failed)
          /\ txn.saved_count + txn.updated_count
                = (idx - 1) - Cardinality(failed)
          /\ idx = 2 => (txn.updated_count = 0 /\ txn.saved_count = 0)

\* C24 witness: the first film of a save was rejected that way although it
\* carries other populated fields that differ from the row's, and the row is
\* older than the save.
C24_Witness ==
    /\ SpineTakenByOther
    /\ idx = 2
    /\ txn.updated_count = 0
    /\ pre[Matched].updated_at < clock
    /\ \E f \in MergedFields \ {"spine_number"} :
          /\ LastFilm[f] # NULL
          /\ pre[Matched][f] # LastFilm[f]
          /\ txn.rows[Matched][f] = pre[Matched][f]

\* The list of a run in which one identity key came from the new-releases
\* page and then from the coming-soon page has been saved.
C25_Scenario ==
    /\ db_phase = "returned"
    /\ Len(films) = 2
    /\ KeyOf(films[1]) = KeyOf(films[2])
    /\ films[1].release_status = StatusOf(Urls[1])
    /\ films[2].release_status = StatusOf(Urls[2])

\* The committed rows with the key of the two films.
RowsOfKey == {i \in 1..Len(store) : KeyOf(store[i]) = KeyOf(films[1])}

\* C25 as claimed: the stored status is that of the page processed last.
C25_LastPageWins ==
    C25_Scenario =>
        /\ RowsOfKey # {}
        /\ \A i \in RowsOfKey : store[i].release_status = "upcoming"

\* C25 amended: the stored status is that of the page processed last,
\* upcoming, when the later film's statement was applied; when it failed
\* (its spine number is held by another row) and the earlier film's was
\* applied, the stored status is that of the earlier page, released.
C25_LastAppliedWins ==
    C25_Scenario =>
        /\ 2 \notin failed =>
              /\ RowsOfKey # {}
              /\ \A i \in RowsOfKey : store[i].release_status = "upcoming"
        /\ (2 \in failed /\ 1 \notin failed) =>
              /\ RowsOfKey # {}
              /\ \A i \in RowsOfKey : store[i].release_status = "released"
        /\ 2 \in failed => store = pre

\* C25 witness: the row had the status released after the first film and
\* has the status upcoming after the second.
C25_Witness ==
    /\ C25_Scenario
    /\ failed = {}
    /\ \E i \in RowsOfKey :
          /\ i <= Len(pre)
          /\ pre[i].release_status = "released"
          /\ store[i].release_status = "upcoming"

====
